---- MODULE Spec2Model ----
(***************************************************************************)
(* Model of app.py: the /loading_text tip endpoint, the /generate          *)
(* prompt-chaining handler, and the helpers get_llm_response and           *)
(* generate_google_maps_link.                                              *)
(*                                                                         *)
(* Python strings that the code inspects character by character (the city, *)
(* the notes, every generated text, the maps link) are sequences of        *)
(* one-character strings.  Form values that the code only parses (budget,  *)
(* days, males, females) or only tests for emptiness (journey-date) are    *)
(* TLA+ strings.  request.form is a function from the submitted field      *)
(* names to their values.                                                  *)
(***************************************************************************)
EXTENDS Integers, Sequences, FiniteSets, TLC

VARIABLES
    pc,               \* position of the /generate handler
    form,             \* request.form of the request being handled
    calls,            \* prompts handed to model.generate_content, in order
    outcomes,         \* what model.generate_content did on each call
    texts,            \* values returned by get_llm_response, in order
    status,           \* HTTP status of the /generate response (0: none yet)
    response,         \* body of the /generate response
    locations_list,   \* local of generate(), line 141
    LOADING_TIPS,     \* the itertools.cycle object, line 23
    tpc,              \* position of each /loading_text request thread
    held,             \* the tip each thread got from next(LOADING_TIPS)
    tipLog            \* tips in the order the next() calls took effect

vars == << pc, form, calls, outcomes, texts, status, response, locations_list,
           LOADING_TIPS, tpc, held, tipLog >>

genVars == << pc, form, calls, outcomes, texts, status, response, locations_list >>
tipVars == << LOADING_TIPS, tpc, held, tipLog >>

(***************************************************************************)
(* Bounds                                                                  *)
(***************************************************************************)
MaxLocLen == 4        \* longest location-extraction text of PureSpec
MaxTipCalls == 15     \* next(LOADING_TIPS) calls followed in TipSpec

(***************************************************************************)
(* String helpers                                                          *)
(***************************************************************************)
Whitespace == { " ", "\n" }

\* str.replace(old, new) for a one-character old
Replace(s, old, new) ==
    [i \in 1..Len(s) |-> IF s[i] = old THEN new ELSE s[i]]

\* str.strip(): drops leading and trailing whitespace
Strip(s) ==
    LET kept == { i \in 1..Len(s) : s[i] \notin Whitespace }
    IN IF kept = {} THEN << >>
       ELSE SubSeq(s, CHOOSE i \in kept : \A j \in kept : i <= j,
                      CHOOSE i \in kept : \A j \in kept : j <= i)

\* str.split(sep): the segments between consecutive separators
Split(s, sep) ==
    LET at == { i \in 1..Len(s) : s[i] = sep }
        \* position of the k-th separator; 0 and Len(s)+1 close the ends
        pos(k) == IF k = 0 THEN 0
                  ELSE IF k > Cardinality(at) THEN Len(s) + 1
                  ELSE CHOOSE p \in at : Cardinality({ q \in at : q <= p }) = k
    IN [k \in 1..(Cardinality(at) + 1) |->
           SubSeq(s, pos(k - 1) + 1, pos(k) - 1)]

RECURSIVE Join(_, _)
\* sep.join(parts)
Join(parts, sep) ==
    IF parts = << >> THEN << >>
    ELSE IF Len(parts) = 1 THEN parts[1]
    ELSE parts[1] \o << sep >> \o Join(Tail(parts), sep)

(***************************************************************************)
(* get_llm_response                                                        *)
(***************************************************************************)
EMPTY_FALLBACK == <<
    "I", "'", "m", " ", "s", "o", "r", "r", "y", ",", " ", "I", " ", "c",
    "o", "u", "l", "d", "n", "'", "t", " ", "g", "e", "n", "e", "r", "a",
    "t", "e", " ", "a", " ", "r", "e", "s", "p", "o", "n", "s", "e", " ",
    "f", "o", "r", " ", "t", "h", "a", "t", ".", " ", "P", "l", "e", "a",
    "s", "e", " ", "t", "r", "y", " ", "a", "g", "a", "i", "n", "." >>

ERROR_FALLBACK == <<
    "A", "n", " ", "e", "r", "r", "o", "r", " ", "o", "c", "c", "u", "r",
    "r", "e", "d", " ", "w", "h", "i", "l", "e", " ", "g", "e", "n", "e",
    "r", "a", "t", "i", "n", "g", " ", "t", "h", "e", " ", "r", "e", "s",
    "p", "o", "n", "s", "e", ".", " ", "P", "l", "e", "a", "s", "e", " ",
    "c", "h", "e", "c", "k", " ", "t", "h", "e", " ", "s", "e", "r", "v",
    "e", "r", " ", "l", "o", "g", "s", "." >>

\* What model.generate_content(prompt) can do: raise, answer without
\* parts, or answer with a text.
Raised == [kind |-> "raise", text |-> << >>]
NoParts == [kind |-> "noparts", text |-> << >>]
Generated(t) == [kind |-> "text", text |-> t]

get_llm_response(outcome) ==
    IF outcome.kind = "raise" THEN ERROR_FALLBACK
    ELSE IF outcome.kind = "noparts" THEN EMPTY_FALLBACK
    ELSE outcome.text

(***************************************************************************)
(* generate_google_maps_link                                               *)
(***************************************************************************)
base_url == <<
    "h", "t", "t", "p", "s", ":", "/", "/", "w", "w", "w", ".", "g", "o",
    "o", "g", "l", "e", ".", "c", "o", "m", "/", "m", "a", "p", "s", "/",
    "d", "i", "r", "/" >>

\* f"{loc.replace(' ', '+')},{city.replace(' ', '+')}"
encoded_location(loc, city) ==
    Replace(loc, " ", "+") \o << "," >> \o Replace(city, " ", "+")

generate_google_maps_link(city, locations) ==
    IF locations = << >> THEN << >>
    ELSE base_url
         \o Join([i \in 1..Len(locations) |->
                     encoded_location(locations[i], city)], "/")

\* line 141: [loc.strip() for loc in s.split('|') if loc.strip()]
NonBlank(seg) == Strip(seg) # << >>

\* line 141 with the filter testing loc instead of loc.strip()
ParseLocationsKeepBlank(s) ==
    LET kept == SelectSeq(Split(s, "|"), LAMBDA seg : seg # << >>)
    IN [i \in 1..Len(kept) |-> Strip(kept[i])]

ParseLocations(s) ==
    LET kept == SelectSeq(Split(s, "|"), NonBlank)
    IN [i \in 1..Len(kept) |-> Strip(kept[i])]

(***************************************************************************)
(* Reading and parsing the form, lines 72-87                               *)
(***************************************************************************)
\* request.form.get(key, default)
FormGet(f, key, default) == IF key \in DOMAIN f THEN f[key] ELSE default

\* A Python float, as far as the handler can tell floats apart: a finite
\* value (val), a finite value close to the largest double ("big"), an
\* infinity, or NaN.
Fin(n) == [cls |-> "fin", val |-> n]
BigFloat == [cls |-> "big", val |-> 0]
PosInf == [cls |-> "inf", val |-> 0]
NaN == [cls |-> "nan", val |-> 0]
ValueError == [cls |-> "ValueError", val |-> 0]

\* float(text) on the budget texts that are submitted
FloatOfText(t) ==
    CASE t = "0" -> Fin(0)
      [] t = "-5" -> Fin(-5)
      [] t = "100" -> Fin(100)
      [] t = "1.7e308" -> BigFloat
      [] t = "inf" -> PosInf
      [] t = "nan" -> NaN
      [] OTHER -> ValueError

\* float(request.form.get('budget', 0)): a missing budget is float(0)
budget_of(f) == IF "budget" \in DOMAIN f THEN FloatOfText(f["budget"]) ELSE Fin(0)

\* int(text) on the count texts that are submitted
IntOfText(t) ==
    CASE t = "-1" -> Fin(-1)
      [] t = "0" -> Fin(0)
      [] t = "1" -> Fin(1)
      [] t = "2" -> Fin(2)
      [] OTHER -> ValueError

days_of(f) == IntOfText(FormGet(f, "days", "1"))
males_of(f) == IntOfText(FormGet(f, "males", "0"))
females_of(f) == IntOfText(FormGet(f, "females", "0"))

\* the except (ValueError, TypeError) branch is taken
ParseRaises(f) ==
    \/ budget_of(f) = ValueError
    \/ days_of(f) = ValueError
    \/ males_of(f) = ValueError
    \/ females_of(f) = ValueError

total_people_of(f) == males_of(f).val + females_of(f).val

\* budget_original <= 0 on floats: false for NaN and for +inf
LeqZero(x) == x.cls = "fin" /\ x.val <= 0

\* line 90
\* `not x` for x = request.form.get(key): the field is None or empty
Falsy(f, key, empty) == IF key \in DOMAIN f THEN f[key] = empty ELSE TRUE

\* line 90 without the test of journey_date
MissingRequiredNoDate(f) ==
    \/ Falsy(f, "city", << >>)
    \/ LeqZero(budget_of(f))
    \/ days_of(f).val <= 0
    \/ total_people_of(f) <= 0

MissingRequired(f) ==
    \/ Falsy(f, "city", << >>)
    \/ LeqZero(budget_of(f))
    \/ days_of(f).val <= 0
    \/ total_people_of(f) <= 0
    \/ Falsy(f, "journey-date", "")

(***************************************************************************)
(* Currency conversion, lines 39-41 and 94-95                              *)
(***************************************************************************)
\* rates in hundredths: 1.0, 83.5, 0.92, 0.79
CURRENCY_RATES_TO_USD ==
    [c \in {"USD", "INR", "EUR", "GBP"} |->
        CASE c = "USD" -> 100 [] c = "INR" -> 8350
          [] c = "EUR" -> 92 [] c = "GBP" -> 79]

currency_of(f) == FormGet(f, "currency", "USD")

conversion_rate(f) ==
    IF currency_of(f) \in DOMAIN CURRENCY_RATES_TO_USD
    THEN CURRENCY_RATES_TO_USD[currency_of(f)] ELSE 100

\* x / rate on floats: a value close to the largest double divided by a
\* rate below 1 overflows to +inf
FloatDiv(x, rate) ==
    CASE x.cls = "nan" -> NaN
      [] x.cls = "inf" -> PosInf
      [] x.cls = "big" -> IF rate < 100 THEN PosInf ELSE BigFloat
      [] OTHER -> [cls |-> "ratio", val |-> x.val * 100, den |-> rate]

\* round(x): raises on NaN (ValueError) and on an infinity (OverflowError);
\* otherwise rounds half to even
RoundFloat(x) ==
    CASE x.cls = "nan" -> [exc |-> "ValueError", val |-> 0]
      [] x.cls = "inf" -> [exc |-> "OverflowError", val |-> 0]
      [] x.cls = "big" -> [exc |-> "none", val |-> 0]
      [] OTHER ->
           LET q == x.val \div x.den
               r == x.val % x.den
           IN [exc |-> "none",
               val |-> IF 2 * r > x.den \/ (2 * r = x.den /\ q % 2 = 1)
                       THEN q + 1 ELSE q]

budget_usd(f) == RoundFloat(FloatDiv(budget_of(f), conversion_rate(f)))

(***************************************************************************)
(* Prompts, lines 97-140                                                   *)
(***************************************************************************)
notes_of(f) == Strip(FormGet(f, "notes", << >>))

prompt_context(f) ==
    [trip_type |-> FormGet(f, "trip-type", "domestic"),
     city |-> f["city"],
     days |-> days_of(f).val,
     journey_date |-> FormGet(f, "journey-date", "None"),
     total_people |-> total_people_of(f),
     males |-> males_of(f).val,
     females |-> females_of(f).val,
     budget_original |-> budget_of(f),
     currency |-> currency_of(f),
     has_notes |-> notes_of(f) # << >>,
     notes |-> notes_of(f)]

NumCalls == 6

\* Prompt with the location prompt built from the overview instead of the
\* day-by-day plan
PromptFromOverview(k, f, got) ==
    CASE k = 1 -> [kind |-> "high_level_plan",
                   context |-> prompt_context(f),
                   currency |-> currency_of(f)]
      [] k = 2 -> [kind |-> "daily_itinerary",
                   embedded |-> got[1],
                   context |-> prompt_context(f),
                   currency |-> currency_of(f)]
      [] k = 3 -> [kind |-> "dining_recommendations",
                   city |-> f["city"],
                   context |-> prompt_context(f),
                   currency |-> currency_of(f)]
      [] k = 4 -> [kind |-> "packing_list",
                   context |-> prompt_context(f)]
      [] k = 5 -> [kind |-> "fun_fact", city |-> f["city"]]
      [] OTHER -> [kind |-> "locations", embedded |-> got[1]]

\* the k-th prompt generate() builds, given the texts returned so far
Prompt(k, f, got) ==
    CASE k = 1 -> [kind |-> "high_level_plan",
                   context |-> prompt_context(f),
                   currency |-> currency_of(f)]
      [] k = 2 -> [kind |-> "daily_itinerary",
                   embedded |-> got[1],
                   context |-> prompt_context(f),
                   currency |-> currency_of(f)]
      [] k = 3 -> [kind |-> "dining_recommendations",
                   city |-> f["city"],
                   context |-> prompt_context(f),
                   currency |-> currency_of(f)]
      [] k = 4 -> [kind |-> "packing_list",
                   context |-> prompt_context(f)]
      [] k = 5 -> [kind |-> "fun_fact", city |-> f["city"]]
      [] OTHER -> [kind |-> "locations", embedded |-> got[2]]

\* the response body of lines 145-152
Itinerary(f, got, locs) ==
    [high_level_plan |-> got[1],
     daily_itinerary |-> got[2],
     dining_recommendations |-> got[3],
     packing_list |-> got[4],
     fun_fact |-> got[5],
     maps_link |-> generate_google_maps_link(f["city"], locs)]

ParseError == [error |-> "Invalid input. Please check that budget, days, and traveler numbers are valid numbers."]
RequiredError == [error |-> "Please fill out all required fields: city, budget, dates, and number of travelers."]
\* an exception that leaves generate(): the server answers 500
ServerError == [exception |-> "Internal Server Error"]
NoResponse == [none |-> TRUE]

(***************************************************************************)
(* Inputs                                                                  *)
(***************************************************************************)
\* a field that may be left out of the form
Opt(key, values) == { << >> } \cup { key :> v : v \in values }

Cities == { << >>, << "N", " ", "Y" >> }
BudgetTexts == { "abc", "0", "-5", "100", "1.7e308", "inf", "nan" }
CurrencyTexts == { "EUR", "ZZZ" }
DaysTexts == { "x", "0", "2" }
MalesTexts == { "x", "-1", "1" }
FemalesTexts == { "2" }
DateTexts == { "", "2025-06-01" }
NotesTexts == { << "n", " " >> }

Forms ==
    { c @@ b @@ u @@ d @@ m @@ w @@ j @@ n :
        c \in Opt("city", Cities), b \in Opt("budget", BudgetTexts),
        u \in { "currency" :> v : v \in CurrencyTexts },
        d \in { "days" :> v : v \in DaysTexts }, m \in Opt("males", MalesTexts),
        w \in Opt("females", FemalesTexts),
        j \in Opt("journey-date", DateTexts),
        n \in Opt("notes", NotesTexts) }

SectionTexts == { << "x" >> }
SectionOutcomes == { Raised, NoParts } \cup { Generated(t) : t \in SectionTexts }

LocationTexts ==
    { << >>, << "\n" >>, << "a" >>, << "a", " ", "b", "|", "c", "\n" >>,
      << "a", "/", "b" >> }
LocationOutcomes == { Raised, NoParts } \cup { Generated(t) : t \in LocationTexts }

(***************************************************************************)
(* The /generate handler                                                   *)
(***************************************************************************)
\* lines 72-87: a field does not parse
GenerateInvalidInput(f) ==
    /\ pc = "idle"
    /\ ParseRaises(f)
    /\ form' = f
    /\ status' = 400
    /\ response' = ParseError
    /\ pc' = "done"
    /\ UNCHANGED << calls, outcomes, texts, locations_list >>

\* lines 72-91: a required field is missing or not positive
GenerateMissingField(f) ==
    /\ pc = "idle"
    /\ ~ParseRaises(f)
    /\ MissingRequired(f)
    /\ form' = f
    /\ status' = 400
    /\ response' = RequiredError
    /\ pc' = "done"
    /\ UNCHANGED << calls, outcomes, texts, locations_list >>

\* lines 72-95: round() raises outside the try block
GenerateCrash(f) ==
    /\ pc = "idle"
    /\ ~ParseRaises(f)
    /\ ~MissingRequired(f)
    /\ budget_usd(f).exc # "none"
    /\ form' = f
    /\ status' = 500
    /\ response' = ServerError
    /\ pc' = "done"
    /\ UNCHANGED << calls, outcomes, texts, locations_list >>

\* lines 72-111: the request is accepted and the first prompt is issued
GenerateStart(f) ==
    /\ pc = "idle"
    /\ ~ParseRaises(f)
    /\ ~MissingRequired(f)
    /\ budget_usd(f).exc = "none"
    /\ form' = f
    /\ calls' = << Prompt(1, f, << >>) >>
    /\ pc' = "awaiting"
    /\ UNCHANGED << outcomes, texts, status, response, locations_list >>

\* one of the first five calls returns; the next prompt is built and issued
SectionReturn(outcome) ==
    /\ pc = "awaiting"
    /\ Len(texts) < NumCalls - 1
    /\ outcomes' = Append(outcomes, outcome)
    /\ LET got == Append(texts, get_llm_response(outcome))
       IN /\ texts' = got
          /\ calls' = Append(calls, Prompt(Len(got) + 1, form, got))
    /\ UNCHANGED << pc, form, status, response, locations_list >>

\* the location-extraction call returns; lines 141-152
LocationReturn(outcome) ==
    /\ pc = "awaiting"
    /\ Len(texts) = NumCalls - 1
    /\ outcomes' = Append(outcomes, outcome)
    /\ LET got == Append(texts, get_llm_response(outcome))
           locs == ParseLocations(got[NumCalls])
       IN /\ texts' = got
          /\ locations_list' = locs
          /\ response' = Itinerary(form, got, locs)
    /\ status' = 200
    /\ pc' = "done"
    /\ UNCHANGED << form, calls >>

GenInit ==
    /\ pc = "idle"
    /\ form = << >>
    /\ calls = << >>
    /\ outcomes = << >>
    /\ texts = << >>
    /\ status = 0
    /\ response = NoResponse
    /\ locations_list = << >>

(***************************************************************************)
(* PureSpec: lines 141-152 on every short location-extraction text         *)
(***************************************************************************)
LocChars == { "a", " ", "\n", "|", "/" }
StringsUpTo(n) == UNION { [1..k -> LocChars] : k \in 0..n }
WideOutcomes == { Generated(t) : t \in StringsUpTo(MaxLocLen) }

PureCities == { << "P" >>, << "N", " ", "Y" >>, << "A", "/", "B" >> }
PureForms ==
    { [city |-> c, budget |-> "100", days |-> "2", males |-> "1",
       females |-> "2"] @@ ("journey-date" :> "2025-06-01") :
        c \in PureCities }

\* the prompts issued once the texts in got have been returned
ChainCalls(f, got) == [k \in 1..(Len(got) + 1) |-> Prompt(k, f, got)]

(***************************************************************************)
(* The /loading_text handler and the itertools.cycle object                *)
(***************************************************************************)
LOADING_TIPS_LIST == <<
    "Pro Tip: Roll your clothes to save space in your luggage...",
    "Did you know? Booking flights on a Tuesday can sometimes be cheaper...",
    "Remember to download offline maps of your destination...",
    "Learning a few basic phrases in the local language goes a long way...",
    "Don't forget to inform your bank about your travel plans...",
    "Packing a portable charger can be a lifesaver...",
    "Always leave a little extra room in your suitcase for souvenirs..." >>

\* itertools.cycle(iterable): the first pass reads the iterable and saves
\* each item; afterwards the saved items are replayed by index
cycle(iterable) ==
    [src |-> iterable, read |-> 0, live |-> TRUE, saved |-> << >>, index |-> 0]

\* cycle_next with the replay index reset to the second saved item
cycle_next_reset_to_one(c) ==
    IF c.live /\ c.read < Len(c.src)
    THEN [item |-> c.src[c.read + 1],
          after |-> [c EXCEPT !.read = c.read + 1,
                              !.saved = Append(c.saved, c.src[c.read + 1])]]
    ELSE [item |-> c.saved[c.index + 1],
          after |-> [c EXCEPT !.live = FALSE,
                              !.index = IF c.index + 1 >= Len(c.saved)
                                        THEN 1 ELSE c.index + 1]]

\* next(c): the item returned and the state of the cycle afterwards
cycle_next(c) ==
    IF c.live /\ c.read < Len(c.src)
    THEN [item |-> c.src[c.read + 1],
          after |-> [c EXCEPT !.read = c.read + 1,
                              !.saved = Append(c.saved, c.src[c.read + 1])]]
    ELSE [item |-> c.saved[c.index + 1],
          after |-> [c EXCEPT !.live = FALSE,
                              !.index = IF c.index + 1 >= Len(c.saved)
                                        THEN 0 ELSE c.index + 1]]

Threads == { 1, 2 }

\* a request for /loading_text reaches a server thread
TipRequest(t) ==
    /\ tpc[t] = "idle"
    /\ Len(tipLog) + Cardinality({ u \in Threads : tpc[u] = "next" }) < MaxTipCalls
    /\ tpc' = [tpc EXCEPT ![t] = "next"]
    /\ UNCHANGED << LOADING_TIPS, held, tipLog >>

\* next(LOADING_TIPS), one call into the C iterator
TipNext(t) ==
    /\ tpc[t] = "next"
    /\ LET r == cycle_next(LOADING_TIPS)
       IN /\ LOADING_TIPS' = r.after
          /\ held' = [held EXCEPT ![t] = r.item]
          /\ tipLog' = Append(tipLog, [thread |-> t, tip |-> r.item])
    /\ tpc' = [tpc EXCEPT ![t] = "respond"]

\* jsonify(tip=...) is sent
TipRespond(t) ==
    /\ tpc[t] = "respond"
    /\ tpc' = [tpc EXCEPT ![t] = "idle"]
    /\ held' = [held EXCEPT ![t] = ""]
    /\ UNCHANGED << LOADING_TIPS, tipLog >>

TipIdle ==
    /\ LOADING_TIPS = cycle(LOADING_TIPS_LIST)
    /\ tpc = [t \in Threads |-> "idle"]
    /\ held = [t \in Threads |-> ""]
    /\ tipLog = << >>

Init == GenInit /\ TipIdle

Next ==
    \/ pc = "idle" /\ \E f \in Forms : GenerateInvalidInput(f) /\ UNCHANGED tipVars
    \/ pc = "idle" /\ \E f \in Forms : GenerateMissingField(f) /\ UNCHANGED tipVars
    \/ pc = "idle" /\ \E f \in Forms : GenerateCrash(f) /\ UNCHANGED tipVars
    \/ pc = "idle" /\ \E f \in Forms : GenerateStart(f) /\ UNCHANGED tipVars
    \/ \E o \in SectionOutcomes : SectionReturn(o) /\ UNCHANGED tipVars
    \/ \E o \in LocationOutcomes : LocationReturn(o) /\ UNCHANGED tipVars

Spec == Init /\ [][Next]_vars

\* the handler waits for the location-extraction call of an accepted request
PureInit ==
    /\ pc = "awaiting"
    /\ form \in PureForms
    /\ outcomes = [k \in 1..(NumCalls - 1) |-> Generated(<< "x" >>)]
    /\ texts = [k \in 1..(NumCalls - 1) |-> << "x" >>]
    /\ calls = ChainCalls(form, texts)
    /\ status = 0
    /\ response = NoResponse
    /\ locations_list = << >>
    /\ TipIdle

PureNext == \E o \in WideOutcomes : LocationReturn(o) /\ UNCHANGED tipVars

PureSpec == PureInit /\ [][PureNext]_vars

TipNextStep ==
    \/ \E t \in Threads : TipRequest(t) /\ UNCHANGED genVars
    \/ \E t \in Threads : TipNext(t) /\ UNCHANGED genVars
    \/ \E t \in Threads : TipRespond(t) /\ UNCHANGED genVars

TipSpec == Init /\ [][TipNextStep]_vars

(***************************************************************************)
(* Properties                                                              *)
(***************************************************************************)
ExpectedKeys ==
    { "high_level_plan", "daily_itinerary", "dining_recommendations",
      "packing_list", "fun_fact", "maps_link" }

IsText(v) == DOMAIN v = 1..Len(v) /\ \A i \in DOMAIN v : v[i] \in STRING

\* the request passed the try block and the test of line 90
PassedValidation(f) == ~ParseRaises(f) /\ ~MissingRequired(f)

Handled == pc = "done"

\* C1: every request that passes validation is answered with an object
\* that has exactly the six expected keys, each holding a string.
C1_AllSectionsReturned ==
    (Handled /\ PassedValidation(form)) =>
        /\ status = 200
        /\ DOMAIN response = ExpectedKeys
        /\ \A k \in ExpectedKeys : IsText(response[k])

\* budget texts that denote a number (an infinity counted as one; "nan"
\* and "abc" do not)
NumericBudgetTexts == { "0", "-5", "100", "1.7e308", "inf" }
NumericCountTexts == { "-1", "0", "1", "2" }
\* the sign of "1.7e308" and "inf" is all that is used of them
NumberOfText(t) ==
    CASE t = "-5" -> 0 - 5 [] t = "-1" -> 0 - 1 [] t = "0" -> 0
      [] t = "1" -> 1 [] t = "2" -> 2 [] t = "100" -> 100
      [] OTHER -> 1

\* the request has one of the defects the validation is to reject
Defective(f) ==
    \/ "city" \notin DOMAIN f
    \/ "budget" \notin DOMAIN f
    \/ ("budget" \in DOMAIN f /\ f["budget"] \notin NumericBudgetTexts)
    \/ ("budget" \in DOMAIN f /\ f["budget"] \in NumericBudgetTexts
            /\ NumberOfText(f["budget"]) <= 0)
    \/ ("days" \in DOMAIN f /\ f["days"] \notin NumericCountTexts)
    \/ ("days" \in DOMAIN f /\ f["days"] \in NumericCountTexts
            /\ NumberOfText(f["days"]) <= 0)
    \/ \E k \in { "males", "females" } :
            k \in DOMAIN f /\ f[k] \notin NumericCountTexts
    \/ /\ \A k \in { "males", "females" } :
                k \in DOMAIN f => f[k] \in NumericCountTexts
       /\ NumberOfText(FormGet(f, "males", "0"))
            + NumberOfText(FormGet(f, "females", "0")) <= 0

\* C2: a request with a missing city, a missing, non-numeric, zero or
\* negative budget, a non-numeric or non-positive days value, or traveler
\* counts that are non-numeric or sum to at most zero is answered with an
\* error object and status 400, and no generation call is made for it.
C2_DefectiveRequestRejected ==
    (Handled /\ Defective(form)) =>
        /\ status = 400
        /\ DOMAIN response = { "error" }
        /\ calls = << >>

\* the text has no '|' delimiter (the empty text included)
NoDelimiter(s) == \A i \in 1..Len(s) : s[i] # "|"

\* C3: when the location-extraction step returns an empty or malformed
\* text (one without a '|' delimiter, such as a fallback text), maps_link
\* is the empty string.
C3_MalformedGivesEmptyLink ==
    (Handled /\ status = 200 /\ NoDelimiter(texts[NumCalls])) =>
        response.maps_link = << >>

\* C4: for N >= 1 names the link is the base URL followed by exactly N
\* segments separated by '/', the i-th being the encoding of the i-th name
\* joined with the city, whatever characters the names contain.
C4_OneSegmentPerName ==
    (Handled /\ status = 200 /\ Len(locations_list) >= 1) =>
        LET link == response.maps_link
            path == SubSeq(link, Len(base_url) + 1, Len(link))
            segs == Split(path, "/")
        IN /\ SubSeq(link, 1, Len(base_url)) = base_url
           /\ Len(segs) = Len(locations_list)
           /\ \A i \in 1..Len(segs) :
                segs[i] = encoded_location(locations_list[i], form["city"])

\* C5: the k-th call of next(LOADING_TIPS) to take effect, counted over
\* all threads, returns list entry ((k-1) mod 7), and the tip a thread
\* sends is the one its own call returned.
C5_TipsCycleInOrder ==
    /\ \A k \in 1..Len(tipLog) :
          tipLog[k].tip
            = LOADING_TIPS_LIST[((k - 1) % Len(LOADING_TIPS_LIST)) + 1]
    /\ \A t \in Threads :
          tpc[t] = "respond" =>
            \E k \in 1..Len(tipLog) :
                /\ tipLog[k] = [thread |-> t, tip |-> held[t]]
                /\ \A j \in (k + 1)..Len(tipLog) : tipLog[j].thread # t

C5_Wrapped ==
    /\ Len(tipLog) = MaxTipCalls
    /\ tipLog[Len(LOADING_TIPS_LIST) + 1].tip = LOADING_TIPS_LIST[1]
    /\ tipLog[Len(LOADING_TIPS_LIST)].thread
         # tipLog[Len(LOADING_TIPS_LIST) + 1].thread
    /\ \E t \in Threads : tpc[t] = "respond"

SectionKeys ==
    << "high_level_plan", "daily_itinerary", "dining_recommendations",
       "packing_list", "fun_fact" >>

\* C6: a failed generation call is replaced by a fallback text for its own
\* section only; every request that passes validation makes exactly six
\* generation calls, and each section whose call succeeded carries the
\* generated text.
C6_SixCallsWhateverFails ==
    (Handled /\ PassedValidation(form)) =>
        /\ Len(calls) = NumCalls
        /\ Len(outcomes) = NumCalls
        /\ \A k \in 1..Len(SectionKeys) :
              response[SectionKeys[k]]
                = CASE outcomes[k].kind = "raise" -> ERROR_FALLBACK
                    [] outcomes[k].kind = "noparts" -> EMPTY_FALLBACK
                    [] OTHER -> outcomes[k].text

PositiveBudget(f) ==
    /\ "budget" \in DOMAIN f
    /\ f["budget"] \in NumericBudgetTexts
    /\ NumberOfText(f["budget"]) > 0

\* every field but the travel date is as a TripRequest requires
ValidButForDate(f) ==
    /\ "city" \in DOMAIN f
    /\ f["city"] # << >>
    /\ PositiveBudget(f)
    /\ NumberOfText(FormGet(f, "days", "1")) > 0
    /\ FormGet(f, "days", "1") \in NumericCountTexts
    /\ FormGet(f, "males", "0") \in NumericCountTexts
    /\ FormGet(f, "females", "0") \in NumericCountTexts
    /\ NumberOfText(FormGet(f, "males", "0"))
         + NumberOfText(FormGet(f, "females", "0")) > 0

NoTravelDate(f) == "journey-date" \notin DOMAIN f \/ f["journey-date"] = ""

\* C7 as stated: a request that is valid but for a missing travel date is
\* answered with a generated itinerary, not with a 400 error.
C7_DateOptional ==
    (Handled /\ ValidButForDate(form) /\ NoTravelDate(form)) =>
        /\ status # 400
        /\ DOMAIN response = ExpectedKeys

\* C7 as amended: the travel date is required; a request that is valid
\* but for a missing or empty travel date is rejected with status 400 and
\* the required-fields error, and no generation call is made for it.
C7_DateRequired ==
    (Handled /\ ValidButForDate(form) /\ NoTravelDate(form)) =>
        /\ status = 400
        /\ response = RequiredError
        /\ calls = << >>

C7_RejectedForDate ==
    /\ Handled
    /\ ValidButForDate(form)
    /\ "journey-date" \notin DOMAIN form
    /\ status = 400

PromptOrder ==
    << "high_level_plan", "daily_itinerary", "dining_recommendations",
       "packing_list", "fun_fact", "locations" >>

\* the text a call hands back, read off what the model did
Returned(o) ==
    CASE o.kind = "raise" -> ERROR_FALLBACK
      [] o.kind = "noparts" -> EMPTY_FALLBACK
      [] OTHER -> o.text

\* C8: the prompts are issued in the fixed order, each only after the
\* previous call has returned; the day-by-day prompt embeds the text
\* returned for the overview and the location prompt embeds the text
\* returned for the day-by-day plan, fallback texts included.
C8_CallsInOrder ==
    /\ Len(calls) <= NumCalls
    /\ \A k \in 1..Len(calls) : calls[k].kind = PromptOrder[k]
    /\ pc = "awaiting" => Len(calls) = Len(outcomes) + 1
    /\ (Handled /\ status = 200) =>
          Len(calls) = NumCalls /\ Len(outcomes) = NumCalls
    /\ Len(calls) >= 2 => calls[2].embedded = Returned(outcomes[1])
    /\ Len(calls) >= NumCalls =>
          calls[NumCalls].embedded = Returned(outcomes[2])

C8_FallbackEmbedded ==
    /\ Handled
    /\ status = 200
    /\ outcomes[1].kind = "text"
    /\ outcomes[2].kind = "raise"
    /\ calls[2].embedded = << "x" >>
    /\ calls[NumCalls].embedded = ERROR_FALLBACK

\* positions of the text that belong to a name
InName(s, i) == s[i] \notin Whitespace \cup { "|" }
SameSegment(s, i, j) == \A m \in i..j : s[m] # "|"
NameStarts(s) ==
    { i \in 1..Len(s) :
        InName(s, i) /\ \A j \in 1..(i - 1) :
                            InName(s, j) => ~SameSegment(s, j, i) }
NameEnds(s) ==
    { i \in 1..Len(s) :
        InName(s, i) /\ \A j \in (i + 1)..Len(s) :
                            InName(s, j) => ~SameSegment(s, i, j) }
Nth(S, n) == CHOOSE p \in S : Cardinality({ q \in S : q <= p }) = n

\* C9: the location list holds, in the order of the text, one name per
\* non-blank '|'-separated segment, trimmed of surrounding whitespace;
\* no name is empty or padded and repeated names are kept.
C9_LocationsParsed ==
    (Handled /\ status = 200) =>
        LET s == texts[NumCalls]
        IN /\ Len(locations_list) = Cardinality(NameStarts(s))
           /\ \A n \in 1..Len(locations_list) :
                /\ locations_list[n]
                     = SubSeq(s, Nth(NameStarts(s), n), Nth(NameEnds(s), n))
                /\ locations_list[n] # << >>
                /\ Head(locations_list[n]) \notin Whitespace
                /\ locations_list[n][Len(locations_list[n])] \notin Whitespace

C9_DuplicateKept ==
    /\ Handled
    /\ Len(locations_list) = 2
    /\ locations_list[1] = locations_list[2]
    /\ \E i \in 1..Len(texts[NumCalls]) : texts[NumCalls][i] \in Whitespace

\* C10: a request for which a generation call is issued has budget > 0,
\* days > 0 and no negative traveler count.
C10_NoNegativeCount ==
    calls # << >> =>
        /\ PositiveBudget(form)
        /\ NumberOfText(FormGet(form, "days", "1")) > 0
        /\ NumberOfText(FormGet(form, "males", "0")) >= 0
        /\ NumberOfText(FormGet(form, "females", "0")) >= 0

====
